---- MODULE Spec2Model ----
(***************************************************************************)
(* A model of the joke generator: the Gemini client (gemini_service.py),   *)
(* the Interacao record and the bounded HistoricoInteracoes (models.py),   *)
(* and the FastAPI handlers that tie them together (main.py).              *)
(*                                                                         *)
(* Four specifications share the variables:                                *)
(*   SpecLog    one HistoricoInteracoes used as a library object, with any *)
(*              cap and any category;                                      *)
(*   Spec       the application of main.py: start-up, then the handlers,   *)
(*              one at a time (they are coroutines that never await);      *)
(*   SpecGerar  GeminiService.gerar_conteudo applied to every request and  *)
(*              every upstream outcome;                                    *)
(*   SpecConc   several threads running Interacao(...) followed by         *)
(*              historico.adicionar(...), interleaved statement by         *)
(*              statement, with no lock.                                   *)
(*                                                                         *)
(* Interacao.timestamp (datetime.now()) is left out of the record: it is   *)
(* read from the wall clock and no operation branches on it.               *)
(***************************************************************************)
EXTENDS Integers, Sequences, FiniteSets, TLC

VARIABLES
    api_key,      \* os.getenv("GEMINI_API_KEY") as seen by GeminiService.__init__
    estado,       \* main.py module: "inicio", "falhou" (import raised), "servindo"
    limite,       \* HistoricoInteracoes.limite
    interacoes,   \* HistoricoInteracoes.interacoes
    contador,     \* Interacao._contador (class attribute)
    nobj,         \* number of Interacao objects allocated (object identity)
    resultado,    \* what the last operation / handler returned
    pedido,       \* the HTTP request gerar_conteudo last built
    upstream,     \* what the upstream API last answered
    saida,        \* what gerar_conteudo last returned or raised
    pc,           \* SpecConc: each thread's position
    tmp,          \* SpecConc: each thread's value loaded from Interacao._contador
    obj,          \* SpecConc: the Interacao each thread is building / appending
    appended      \* history: every interaction passed to list.append since the
                  \* log was last empty by construction or by limpar()

vars == <<api_key, estado, limite, interacoes, contador, nobj, resultado,
          pedido, upstream, saida, pc, tmp, obj, appended>>

(***************************************************************************)
(* Bounds of the model.                                                    *)
(***************************************************************************)
MaxLimite == 3        \* SpecLog: caps 0..MaxLimite
MaxAppends == 5       \* SpecLog: interactions created in one behaviour
MaxExtra == 2         \* Spec: interactions created beyond the cap of main.py
NThreads == 2         \* SpecConc: threads
MaxPedidos == 3       \* SpecConc: requests started by all threads together
MaxLimiteConc == 1    \* SpecConc: caps 0..MaxLimiteConc

Min(a, b) == IF a < b THEN a ELSE b

\* Python's None, kept apart from every string.
NoneVal == "<None>"

(***************************************************************************)
(* models.py: Interacao                                                    *)
(***************************************************************************)

\* `categoria or "geral"`: None and the empty string are falsy.
CategoriaOuGeral(c) == IF c = NoneVal \/ c = "" THEN "geral" ELSE c

\* The object built by Interacao.__init__ once the id is known.
\* ref is the object's identity; it is no attribute of the object.
Interacao(ref, id, usuario_input, ia_resposta, categoria) ==
    [ref |-> ref, id |-> id, usuario_input |-> usuario_input,
     ia_resposta |-> ia_resposta, categoria |-> CategoriaOuGeral(categoria)]

\* Interacao._contador += 1, as one step.
ProximoContador(c) == c + 1

\* Interacao.para_dict: the plain view of an interaction.
ParaDict(i) ==
    [id |-> i.id, usuario_input |-> i.usuario_input,
     ia_resposta |-> i.ia_resposta, categoria |-> i.categoria]

(***************************************************************************)
(* models.py: HistoricoInteracoes                                          *)
(***************************************************************************)

\* Faulty variant: pop() takes the newest entry instead of the oldest.
PopUltimo(log) == SubSeq(log, 1, Len(log) - 1)

\* self.interacoes.pop(0)
PopPrimeiro(log) == Tail(log)

\* Faulty variant: the cap test is off by one.
AcimaOuIgualAoLimite(log, lim) == Len(log) >= lim

\* `if len(self.interacoes) > self.limite`
AcimaDoLimite(log, lim) == Len(log) > lim

\* adicionar: append, then drop the first entry when over the limit.
Adicionar(log, i, lim) ==
    LET com == Append(log, i)
    IN  IF AcimaDoLimite(com, lim) THEN PopPrimeiro(com) ELSE com

\* obter_todas: [interacao.para_dict() for interacao in self.interacoes]
ObterTodas(log) == [k \in 1..Len(log) |-> ParaDict(log[k])]

\* Faulty variant: the filter keeps the other categories.
OutraCategoria(i, categoria) == i.categoria # categoria

\* Whether the comprehension of obter_por_categoria keeps an entry.
MesmaCategoria(i, categoria) == i.categoria = categoria

\* obter_por_categoria: the comprehension, entry by entry from the front.
RECURSIVE ObterPorCategoria(_, _)
ObterPorCategoria(log, categoria) ==
    IF log = <<>> THEN <<>>
    ELSE LET resto == ObterPorCategoria(Tail(log), categoria)
         IN  IF MesmaCategoria(Head(log), categoria)
             THEN <<ParaDict(Head(log))>> \o resto
             ELSE resto

\* Faulty variant: limpar drops the oldest entry only.
LimparSoPrimeiro(log) == IF log = <<>> THEN <<>> ELSE Tail(log)

\* limpar: self.interacoes.clear()
Limpar(log) == <<>>

\* total: len(self.interacoes)
Total(log) == Len(log)

(***************************************************************************)
(* gemini_service.py: GeminiService                                        *)
(***************************************************************************)

\* The value .env.example ships for GEMINI_API_KEY.
Placeholder == "sua_api_key_aqui"

\* Faulty variant: the placeholder is not checked.
CredencialAusente(k) == k = NoneVal \/ k = ""

\* __init__: `not self.api_key or self.api_key == "sua_api_key_aqui"`.
CredencialInvalida(k) == k = NoneVal \/ k = "" \/ k = Placeholder

\* JSON values as Python sees them after response.json().
JNull == [j |-> "null", v |-> <<>>]
JStr(s) == [j |-> "str", v |-> s]
JList(itens) == [j |-> "list", v |-> itens]
JDict(campos) == [j |-> "dict", v |-> campos]
JVazio == [j |-> "dict", v |-> <<>>]
\* A body response.json() cannot decode.
NaoJson == [j |-> "naojson", v |-> <<>>]

\* The outcome of one subscript: a value, or the exception Python raises.
Val(x) == [ok |-> TRUE, v |-> x, exc |-> ""]
Exc(e) == [ok |-> FALSE, v |-> JNull, exc |-> e]

\* x["name"]: a dict without the key raises KeyError, a list or None TypeError.
SubChave(x, nome) ==
    IF x.j = "dict"
    THEN IF nome \in DOMAIN x.v THEN Val(x.v[nome]) ELSE Exc("KeyError")
    ELSE Exc("TypeError")

\* x[0]: an empty list raises IndexError, a dict KeyError (0 is no key of a
\* JSON object), None TypeError.  Strings occur only as the leaf.
SubZero(x) ==
    CASE x.j = "list" -> IF Len(x.v) > 0 THEN Val(x.v[1]) ELSE Exc("IndexError")
      [] x.j = "dict" -> Exc("KeyError")
      [] x.j = "null" -> Exc("TypeError")

\* data["candidates"][0]["content"]["parts"][0]["text"], left to right;
\* "[0]" stands for the integer subscript.
CaminhoTexto == <<"candidates", "[0]", "content", "parts", "[0]", "text">>

RECURSIVE Percorrer(_, _)
Percorrer(x, caminho) ==
    IF caminho = <<>> THEN Val(x)
    ELSE LET r == IF Head(caminho) = "[0]" THEN SubZero(x)
                  ELSE SubChave(x, Head(caminho))
         IN  IF r.ok THEN Percorrer(r.v, Tail(caminho)) ELSE r

\* requests' Response.raise_for_status raises HTTPError for 4xx and 5xx only.
RaiseForStatus(status) == 400 =< status /\ status < 600

\* The exception classes requests.post can raise, by the except clause that
\* catches them: ConnectTimeout is both a ConnectionError and a Timeout, and
\* the Timeout clause comes first.
EhTimeout(exc) == exc \in {"ReadTimeout", "ConnectTimeout"}
EhConnectionError(exc) == exc \in {"ConnectionError", "ConnectTimeout"}

\* What gerar_conteudo returns (ok) or the Exception it raises (msg).  Every
\* failure is a plain Exception; the message is all that tells them apart.
Texto(t) == [ok |-> TRUE, texto |-> t, msg |-> "", status |-> 0]
Erro(m, st) == [ok |-> FALSE, texto |-> JNull, msg |-> m, status |-> st]

\* Faulty variant: 401 is not told apart from the other statuses.
ErroHttpSem401(status) ==
    IF status = 429 THEN Erro("limite de requisicoes", 0)
    ELSE Erro("Erro HTTP", status)

\* except requests.exceptions.HTTPError: the branch on response.status_code.
ErroHttp(status) ==
    IF status = 429 THEN Erro("limite de requisicoes", 0)
    ELSE IF status = 401 THEN Erro("API key invalida", 0)
    ELSE Erro("Erro HTTP", status)

\* except KeyError / except Exception: the exception of the lookup.
ErroExtracao(exc) ==
    IF exc = "KeyError" THEN Erro("formato inesperado", 0)
    ELSE Erro("Erro inesperado", 0)

\* The try block of gerar_conteudo and its except clauses, in order.
GerarConteudo(up) ==
    IF up.tipo # "resposta"
    THEN IF EhTimeout(up.tipo) THEN Erro("timeout", 0)
         ELSE IF EhConnectionError(up.tipo) THEN Erro("Erro de conexao", 0)
         ELSE Erro("Erro inesperado", 0)
    ELSE IF RaiseForStatus(up.status) THEN ErroHttp(up.status)
    ELSE IF up.corpo.j = "naojson" THEN Erro("Erro inesperado", 0)
    ELSE LET r == Percorrer(up.corpo, CaminhoTexto)
         IN  IF r.ok THEN Texto(r.v) ELSE ErroExtracao(r.exc)

\* `if max_tokens:` -- None and 0 are falsy.
TemMaxTokens(max_tokens) == max_tokens # <<>> /\ max_tokens # <<0>>

\* url, params, payload, headers and timeout of the POST.  max_tokens is <<>>
\* for None and <<n>> for n; topP and the temperature are kept as text.
MontarPedido(key, prompt, temperatura, max_tokens) ==
    [url |-> "https://generativelanguage.googleapis.com/v1beta/models/gemini-2.5-flash:generateContent",
     key |-> key,
     contents |-> <<[parts |-> <<[text |-> prompt]>>]>>,
     temperature |-> temperatura,
     topK |-> 40,
     topP |-> "0.95",
     maxOutputTokens |-> IF TemMaxTokens(max_tokens) THEN max_tokens ELSE <<>>,
     timeout |-> 30]

\* ---- what the upstream may answer ----

TextoPiada == JStr("Cats rule.")
Parte == JDict([text |-> TextoPiada])
Candidato(partes) == JDict([content |-> JDict([parts |-> JList(partes)])])

\* Response bodies: the expected shape, and each way of falling short of it.
Corpo(n) ==
    CASE n = 1 -> JDict([candidates |-> JList(<<Candidato(<<Parte>>)>>)])
      [] n = 2 -> NaoJson
      [] n = 3 -> JVazio
      [] n = 4 -> JDict([candidates |-> JList(<<>>)])
      [] n = 5 -> JDict([candidates |-> JList(<<JVazio>>)])
      [] n = 6 -> JDict([candidates |-> JList(<<JDict([content |-> JVazio])>>)])
      [] n = 7 -> JDict([candidates |-> JList(<<Candidato(<<>>)>>)])
      [] n = 8 -> JDict([candidates |-> JList(<<Candidato(<<JVazio>>)>>)])
      [] n = 9 -> JDict([candidates |-> JNull])
      [] n = 10 -> JDict([candidates |-> JVazio])
      [] n = 11 -> JDict([promptFeedback |-> JDict([blockReason |-> JStr("SAFETY")])])
      [] n = 12 -> JDict([candidates |-> JList(<<Candidato(<<Parte, Parte>>), JVazio>>)])
Corpos == 1..12

Statuses == {200, 201, 204, 301, 304, 400, 401, 403, 404, 429, 500, 503}
Transportes == {"ReadTimeout", "ConnectTimeout", "ConnectionError", "TooManyRedirects"}

Resposta(status, n) == [tipo |-> "resposta", status |-> status, corpo |-> Corpo(n)]
FalhaTransporte(exc) == [tipo |-> exc, status |-> 0, corpo |-> NaoJson]
SemUpstream == [tipo |-> "nenhum", status |-> 0, corpo |-> NaoJson]

(***************************************************************************)
(* Values shared by the specifications.                                    *)
(***************************************************************************)

Threads == 1..NThreads

\* What an operation returned: the handler or method, the count it reports,
\* the list it returns, the error message it shows.
Res(op, total, lista, erro) ==
    [op |-> op, total |-> total, lista |-> lista, erro |-> erro]
SemResultado == Res("nenhum", 0, <<>>, "")

SemPedido == MontarPedido(NoneVal, "", "", <<>>)
SemSaida == Erro("nenhuma", 0)
SemObj == Interacao(0, 0, "", "", "")

\* Every answer the upstream can give to one POST.
Upstreams ==
    {FalhaTransporte(e) : e \in Transportes}
        \cup {Resposta(st, n) : st \in Statuses, n \in Corpos}

\* Every way one call of gerar_conteudo can end.
Saidas == {GerarConteudo(up) : up \in Upstreams}

\* The part of the state a specification does not touch.
ParadoGemini == UNCHANGED <<pedido, upstream, saida>>
ParadoThreads == UNCHANGED <<pc, tmp, obj>>
ParadoApp == UNCHANGED <<api_key, estado>>

InitGemini == pedido = SemPedido /\ upstream = SemUpstream /\ saida = SemSaida
InitThreads ==
    /\ pc = [t \in Threads |-> "idle"]
    /\ tmp = [t \in Threads |-> 0]
    /\ obj = [t \in Threads |-> SemObj]
InitLog ==
    /\ interacoes = <<>>
    /\ contador = 0
    /\ nobj = 0
    /\ appended = <<>>
    /\ resultado = SemResultado

(***************************************************************************)
(* SpecLog: HistoricoInteracoes(limite) as a library object.               *)
(***************************************************************************)

\* The category argument of Interacao(...): None, "", or a label.
CategoriasArg == {NoneVal, "", "piada", "pergunta"}
\* The categories a caller may filter by.
CategoriasFiltro == {"geral", "piada", "pergunta", ""}

InitBiblioteca ==
    /\ api_key = "chave-de-teste"
    /\ estado = "biblioteca"
    /\ limite \in 0..MaxLimite
    /\ InitLog /\ InitGemini /\ InitThreads

\* Interacao(u, r, c) followed by historico.adicionar(it).
LogAdicionar ==
    /\ contador < MaxAppends
    /\ \E c \in CategoriasArg :
         LET id == ProximoContador(contador)
             it == Interacao(nobj + 1, id, "tema", "Cats rule.", c)
         IN  /\ contador' = id
             /\ nobj' = nobj + 1
             /\ interacoes' = Adicionar(interacoes, it, limite)
             /\ appended' = Append(appended, it)
             /\ resultado' = Res("adicionar", 0, <<>>, "")
    /\ UNCHANGED limite
    /\ ParadoApp /\ ParadoGemini /\ ParadoThreads

LogObterTodas ==
    /\ resultado' = Res("obter_todas", 0, ObterTodas(interacoes), "")
    /\ UNCHANGED <<limite, interacoes, contador, nobj, appended>>
    /\ ParadoApp /\ ParadoGemini /\ ParadoThreads

\* The category asked for is kept in the erro field of the result, which
\* obter_por_categoria has no use for.
LogObterPorCategoria ==
    /\ \E c \in CategoriasFiltro :
         resultado' = Res("obter_por_categoria", 0, ObterPorCategoria(interacoes, c), c)
    /\ UNCHANGED <<limite, interacoes, contador, nobj, appended>>
    /\ ParadoApp /\ ParadoGemini /\ ParadoThreads

LogLimpar ==
    /\ interacoes' = Limpar(interacoes)
    /\ appended' = <<>>
    /\ resultado' = Res("limpar", 0, <<>>, "")
    /\ UNCHANGED <<limite, contador, nobj>>
    /\ ParadoApp /\ ParadoGemini /\ ParadoThreads

LogTotal ==
    /\ resultado' = Res("total", Total(interacoes), <<>>, "")
    /\ UNCHANGED <<limite, interacoes, contador, nobj, appended>>
    /\ ParadoApp /\ ParadoGemini /\ ParadoThreads

NextLog ==
    \/ LogAdicionar
    \/ LogObterTodas
    \/ LogObterPorCategoria
    \/ LogLimpar
    \/ LogTotal

SpecLog == InitBiblioteca /\ [][NextLog]_vars

(***************************************************************************)
(* SpecGerar: GeminiService.gerar_conteudo, every request against every    *)
(* upstream answer.                                                        *)
(***************************************************************************)

Prompts == {"conte uma piada", "tell me about cats"}
Temperaturas == {"0.0", "0.9"}
MaxTokensArg == {<<>>, <<0>>, <<100>>}

InitGerar ==
    /\ api_key = "chave-de-teste"
    /\ estado = "biblioteca"
    /\ limite = 0
    /\ InitLog /\ InitGemini /\ InitThreads

ChamarGerarConteudo ==
    /\ \E p \in Prompts, t \in Temperaturas, m \in MaxTokensArg, up \in Upstreams :
         /\ pedido' = MontarPedido(api_key, p, t, m)
         /\ upstream' = up
         /\ saida' = GerarConteudo(up)
    /\ UNCHANGED <<limite, interacoes, contador, nobj, resultado, appended>>
    /\ ParadoApp /\ ParadoThreads

NextGerar == ChamarGerarConteudo

SpecGerar == InitGerar /\ [][NextGerar]_vars

(***************************************************************************)
(* Spec: the application of main.py.  Importing the module builds the      *)
(* GeminiService and the HistoricoInteracoes; the handlers exist only if   *)
(* the import went through.  Each handler is a coroutine without an await, *)
(* so the event loop runs it from start to end before the next one.        *)
(***************************************************************************)

\* historico = HistoricoInteracoes(limite=50)
LimiteApp == 50

\* What GEMINI_API_KEY may hold when the process starts.
Chaves == {NoneVal, "", Placeholder, "AIza-chave-1", "AIza-chave-2"}

\* Form values of user_input, as sequences of characters.  One of them passes
\* the length check, so that the log is told by its ids.
Entradas == { <<>>, <<"a">>, <<" ", " ", " ">>, <<" ", "a", " ">>,
              <<" ", "o", "i", " ">> }

Espaco(ch) == ch = " "

\* str.strip(): drop the whitespace at both ends.
RECURSIVE StripEsquerda(_)
StripEsquerda(u) ==
    IF u # <<>> /\ Espaco(Head(u)) THEN StripEsquerda(Tail(u)) ELSE u
RECURSIVE StripDireita(_)
StripDireita(u) ==
    IF u # <<>> /\ Espaco(u[Len(u)])
    THEN StripDireita(SubSeq(u, 1, Len(u) - 1)) ELSE u
Strip(u) == StripDireita(StripEsquerda(u))

\* Faulty variant: the length is taken without strip().
EntradaCurtaSemStrip(u) == u = <<>> \/ Len(u) < 2

\* `not user_input or len(user_input.strip()) < 2`
EntradaCurta(u) == u = <<>> \/ Len(Strip(u)) < 2

InitApp ==
    /\ api_key \in Chaves
    /\ estado = "inicio"
    /\ limite = 0
    /\ InitLog /\ InitGemini /\ InitThreads

\* import main: gemini = GeminiService() raises ValueError on a bad
\* credential, and nothing below that line is executed.
Iniciar ==
    /\ estado = "inicio"
    /\ IF CredencialInvalida(api_key)
       THEN estado' = "falhou" /\ UNCHANGED limite
       ELSE estado' = "servindo" /\ limite' = LimiteApp
    /\ UNCHANGED <<api_key, interacoes, contador, nobj, resultado, appended>>
    /\ ParadoGemini /\ ParadoThreads

PaginaInicial ==
    /\ estado = "servindo"
    /\ resultado' = Res("pagina_inicial", 0, <<>>, "")
    /\ UNCHANGED <<limite, interacoes, contador, nobj, appended>>
    /\ ParadoApp /\ ParadoGemini /\ ParadoThreads

\* POST /processar.  The temperature is handed on to gerar_conteudo and
\* decides nothing here.
ProcessarInput ==
    /\ estado = "servindo"
    /\ \E u \in Entradas, s \in Saidas :
         IF EntradaCurta(u)
         THEN /\ resultado' = Res("processar", 0, <<>>, "Escreva pelo menos 2 caracteres")
              /\ UNCHANGED <<interacoes, contador, nobj, appended>>
         ELSE \* s is what gemini.gerar_conteudo(prompt, temperatura) does
              IF s.ok
              THEN LET id == ProximoContador(contador)
                       it == Interacao(nobj + 1, id, u, s.texto.v, "piada")
                   IN  /\ contador < LimiteApp + MaxExtra
                       /\ contador' = id
                       /\ nobj' = nobj + 1
                       /\ interacoes' = Adicionar(interacoes, it, limite)
                       /\ appended' = Append(appended, it)
                       /\ resultado' = Res("processar", Total(interacoes'), <<>>, "")
              ELSE /\ resultado' = Res("processar", 0, <<>>, s.msg)
                   /\ UNCHANGED <<interacoes, contador, nobj, appended>>
    /\ UNCHANGED limite
    /\ ParadoApp /\ ParadoGemini /\ ParadoThreads

VerHistorico ==
    /\ estado = "servindo"
    /\ resultado' = Res("historico", Total(interacoes), ObterTodas(interacoes), "")
    /\ UNCHANGED <<limite, interacoes, contador, nobj, appended>>
    /\ ParadoApp /\ ParadoGemini /\ ParadoThreads

\* The handler answers "total": 0 without asking the log.
LimparHistorico ==
    /\ estado = "servindo"
    /\ interacoes' = Limpar(interacoes)
    /\ appended' = <<>>
    /\ resultado' = Res("limpar-historico", 0, <<>>, "")
    /\ UNCHANGED <<limite, contador, nobj>>
    /\ ParadoApp /\ ParadoGemini /\ ParadoThreads

HealthCheck ==
    /\ estado = "servindo"
    /\ resultado' = Res("health", Total(interacoes), <<>>, "")
    /\ UNCHANGED <<limite, interacoes, contador, nobj, appended>>
    /\ ParadoApp /\ ParadoGemini /\ ParadoThreads

Next ==
    \/ Iniciar
    \/ PaginaInicial
    \/ ProcessarInput
    \/ VerHistorico
    \/ LimparHistorico
    \/ HealthCheck

Spec == InitApp /\ [][Next]_vars

(***************************************************************************)
(* SpecConc: threads that each run lines 86-91 of main.py on one shared    *)
(* Interacao._contador and one shared HistoricoInteracoes, with no lock.   *)
(* A thread may be preempted between any two statements, and inside        *)
(* `_contador += 1` between the load and the store; list.append and        *)
(* list.pop are single steps.                                              *)
(***************************************************************************)

InitConc ==
    /\ api_key = "chave-de-teste"
    /\ estado = "servindo"
    /\ limite \in 0..MaxLimiteConc
    /\ InitLog /\ InitGemini /\ InitThreads

ParadoConc == UNCHANGED <<limite, resultado>> /\ ParadoApp /\ ParadoGemini

\* gerar_conteudo has returned a text; Interacao(...) is allocated and its
\* __init__ is entered.
TNova(t) ==
    /\ pc[t] = "idle"
    /\ nobj < MaxPedidos
    /\ \E s \in Saidas :
         /\ s.ok
         /\ obj' = [obj EXCEPT ![t] = Interacao(nobj + 1, 0, "tema", s.texto.v, "piada")]
    /\ nobj' = nobj + 1
    /\ pc' = [pc EXCEPT ![t] = "load"]
    /\ UNCHANGED <<interacoes, contador, tmp, appended>>
    /\ ParadoConc

\* Interacao._contador += 1: the load of the class attribute
TLoad(t) ==
    /\ pc[t] = "load"
    /\ tmp' = [tmp EXCEPT ![t] = contador]
    /\ pc' = [pc EXCEPT ![t] = "store"]
    /\ UNCHANGED <<interacoes, contador, nobj, obj, appended>>
    /\ ParadoConc

\* Interacao._contador += 1: the store of the incremented value
TStore(t) ==
    /\ pc[t] = "store"
    /\ contador' = ProximoContador(tmp[t])
    /\ tmp' = [tmp EXCEPT ![t] = 0]
    /\ pc' = [pc EXCEPT ![t] = "get_id"]
    /\ UNCHANGED <<interacoes, nobj, obj, appended>>
    /\ ParadoConc

\* self.id = Interacao._contador
TGetId(t) ==
    /\ pc[t] = "get_id"
    /\ obj' = [obj EXCEPT ![t].id = contador]
    /\ pc' = [pc EXCEPT ![t] = "append"]
    /\ UNCHANGED <<interacoes, contador, nobj, tmp, appended>>
    /\ ParadoConc

\* adicionar: self.interacoes.append(interacao)
TAppend(t) ==
    /\ pc[t] = "append"
    /\ interacoes' = Append(interacoes, obj[t])
    /\ appended' = Append(appended, obj[t])
    /\ pc' = [pc EXCEPT ![t] = "check"]
    /\ UNCHANGED <<contador, nobj, tmp, obj>>
    /\ ParadoConc

\* adicionar: if len(self.interacoes) > self.limite.  When the test fails
\* the handler returns and its local `interacao` is gone.
TCheck(t) ==
    /\ pc[t] = "check"
    /\ IF AcimaDoLimite(interacoes, limite)
       THEN pc' = [pc EXCEPT ![t] = "pop"] /\ UNCHANGED obj
       ELSE pc' = [pc EXCEPT ![t] = "idle"] /\ obj' = [obj EXCEPT ![t] = SemObj]
    /\ UNCHANGED <<interacoes, contador, nobj, tmp, appended>>
    /\ ParadoConc

\* adicionar: self.interacoes.pop(0).  On an empty list pop raises
\* IndexError, which processar_input catches; the list stays as it is.
TPop(t) ==
    /\ pc[t] = "pop"
    /\ interacoes' = IF interacoes = <<>> THEN interacoes ELSE PopPrimeiro(interacoes)
    /\ pc' = [pc EXCEPT ![t] = "idle"]
    /\ obj' = [obj EXCEPT ![t] = SemObj]
    /\ UNCHANGED <<contador, nobj, tmp, appended>>
    /\ ParadoConc

NextConc ==
    \E t \in Threads :
        \/ TNova(t)
        \/ TLoad(t)
        \/ TStore(t)
        \/ TGetId(t)
        \/ TAppend(t)
        \/ TCheck(t)
        \/ TPop(t)

SpecConc == InitConc /\ [][NextConc]_vars

(***************************************************************************)
(* Properties of the History Log, checked under SpecLog.                   *)
(***************************************************************************)

\* The last n elements of a sequence.
UltimosDe(seq, n) == SubSeq(seq, Len(seq) - n + 1, Len(seq))

\* A step that is one list.append on the log.
PassoAppend == Len(appended') = Len(appended) + 1
NovoAppend == appended'[Len(appended')]

\* C1: after N appends to an empty log with cap C the log holds exactly the
\* last min(N, C) appended interactions, in insertion order, and obter_todas
\* shows the views of exactly those.
C1_UltimosMinNC ==
    LET n == Len(appended)
        k == Min(n, limite)
    IN  /\ Len(interacoes) = k
        /\ interacoes = UltimosDe(appended, k)
        /\ resultado.op = "obter_todas" =>
             /\ Len(resultado.lista) = k
             /\ \A j \in 1..k :
                  /\ resultado.lista[j].id = appended[n - k + j].id
                  /\ resultado.lista[j].categoria = appended[n - k + j].categoria

\* C1 witness: three appends with cap 2, then obter_todas: the first is gone
\* and the third is there.
C1_Witness ==
    /\ limite = 2
    /\ Len(appended) = 3
    /\ resultado.op = "obter_todas"
    /\ Len(resultado.lista) = 2
    /\ \A j \in 1..2 : resultado.lista[j].id # appended[1].id
    /\ resultado.lista[2].id = appended[3].id

\* C2: the log is never longer than its cap; an append onto a full log drops
\* exactly one entry, the oldest, and an append onto a log with room drops
\* none; obter_todas, obter_por_categoria and total leave the log alone.
C2_LimiteEFifo ==
    /\ [](Len(interacoes) =< limite)
    /\ [][ /\ PassoAppend =>
                IF Len(interacoes) + 1 > limite
                THEN /\ Len(interacoes') = Len(interacoes)
                     /\ Append(interacoes, NovoAppend) = <<Head(Append(interacoes, NovoAppend))>> \o interacoes'
                ELSE interacoes' = Append(interacoes, NovoAppend)
           /\ resultado'.op \in {"obter_todas", "obter_por_categoria", "total"} =>
                interacoes' = interacoes
         ]_vars

\* C2 witness: an append has just pushed the oldest entry out of a full log.
C2_Witness ==
    /\ limite >= 2
    /\ resultado.op = "adicionar"
    /\ Len(appended) > limite
    /\ Len(interacoes) = limite
    /\ interacoes[1].id = appended[Len(appended) - limite + 1].id

\* C6: obter_por_categoria(c) returns the views of exactly the entries whose
\* category is c, in log order, and leaves the log unchanged.
C6_FiltroSubsequencia ==
    /\ [](resultado.op = "obter_por_categoria" =>
            LET c == resultado.erro
                Eh(i) == i.categoria = c
                sel == SelectSeq(interacoes, Eh)
            IN  /\ Len(resultado.lista) = Len(sel)
                /\ \A j \in 1..Len(sel) :
                     /\ resultado.lista[j].id = sel[j].id
                     /\ resultado.lista[j].categoria = c
                     /\ resultado.lista[j].usuario_input = sel[j].usuario_input
                     /\ resultado.lista[j].ia_resposta = sel[j].ia_resposta)
    /\ [][resultado'.op = "obter_por_categoria" => interacoes' = interacoes]_vars

\* C6 witness: a filter that keeps the first and third entries and skips the
\* second.
C6_Witness ==
    /\ resultado.op = "obter_por_categoria"
    /\ Len(interacoes) = 3
    /\ interacoes[1].categoria = resultado.erro
    /\ interacoes[2].categoria # resultado.erro
    /\ interacoes[3].categoria = resultado.erro
    /\ Len(resultado.lista) = 2

\* C7: total() right after limpar() is 0 whatever the log held, and from a
\* limpar() on the length follows the appends made since, up to the cap.
C7_LimparZera ==
    /\ [][(resultado.op = "limpar" /\ resultado'.op = "total") => resultado'.total = 0]_vars
    /\ [][resultado'.op = "limpar" => Total(interacoes') = 0]_vars
    /\ [](Len(interacoes) = Min(Len(appended), limite))

\* C7 witness: total() answers 0 right after a limpar() of a log that held
\* entries.
C7_Witness ==
    /\ resultado.op = "total"
    /\ resultado.total = 0
    /\ limite >= 1
    /\ contador >= 2
    /\ appended = <<>>

\* C7, second witness state: appends after a limpar() have filled the log
\* again.
C7_ReenchidoAposLimpar ==
    /\ limite = 2
    /\ contador = 4
    /\ Len(appended) = 2
    /\ Len(interacoes) = 2

(***************************************************************************)
(* Properties of gerar_conteudo, checked under SpecGerar.                  *)
(***************************************************************************)

MsgLimite == "limite de requisicoes"
MsgChave == "API key invalida"
MsgHttp == "Erro HTTP"
MsgFormato == "formato inesperado"

Respondeu == upstream.tipo = "resposta"
Status2xx == upstream.status \in 200..299

\* C4 as claimed: 429 gives the rate-limit error, 401 the auth error, and
\* every other status outside 200..299 the generic upstream error with the
\* status code; none of them returns a text.
C4_TodoNao2xx ==
    Respondeu =>
        /\ upstream.status = 429 => saida.msg = MsgLimite
        /\ upstream.status = 401 => saida.msg = MsgChave
        /\ (~Status2xx /\ upstream.status \notin {429, 401}) =>
              (saida.msg = MsgHttp /\ saida.status = upstream.status)
        /\ ~Status2xx => ~saida.ok

\* C4 amended: the same for the statuses raise_for_status treats as errors,
\* 400..599: 429 gives the rate-limit error, 401 the auth error, every other
\* one the generic upstream error with the status code; the three messages
\* differ and none of these statuses returns a text.
C4_Status4xx5xx ==
    (Respondeu /\ upstream.status \in 400..599) =>
        /\ ~saida.ok
        /\ saida.msg \in {MsgLimite, MsgChave, MsgHttp}
        /\ saida.msg = MsgLimite <=> upstream.status = 429
        /\ saida.msg = MsgChave <=> upstream.status = 401
        /\ saida.msg = MsgHttp <=> upstream.status \notin {429, 401}
        /\ saida.msg = MsgHttp => saida.status = upstream.status

\* C4 witness: a 503 has been turned into the generic error carrying 503.
C4_Witness ==
    /\ Respondeu
    /\ upstream.status = 503
    /\ saida.msg = MsgHttp
    /\ saida.status = 503

\* C4, the case the amendment leaves out: a 304 whose body has the expected
\* shape is returned as a text.
C4_Status3xxDevolveTexto ==
    /\ Respondeu
    /\ upstream.status = 304
    /\ saida.ok

\* Whether a JSON value is an object holding the key.
TemCampo(x, nome) == x.j = "dict" /\ nome \in DOMAIN x.v
ListaVazia(x) == x.j = "list" /\ Len(x.v) = 0
ListaCheia(x) == x.j = "list" /\ Len(x.v) > 0

\* The cases of C5: the body is an object in which candidates, content, parts
\* or text is missing, or candidates or parts is an empty list.
FaltaTextoEsperado(corpo) ==
    /\ corpo.j = "dict"
    /\ \/ ~TemCampo(corpo, "candidates")
       \/ ListaVazia(corpo.v.candidates)
       \/ /\ ListaCheia(corpo.v.candidates)
          /\ LET cand == corpo.v.candidates.v[1]
             IN  /\ cand.j = "dict"
                 /\ \/ ~TemCampo(cand, "content")
                    \/ /\ cand.v.content.j = "dict"
                       /\ \/ ~TemCampo(cand.v.content, "parts")
                          \/ ListaVazia(cand.v.content.v.parts)
                          \/ /\ ListaCheia(cand.v.content.v.parts)
                             /\ cand.v.content.v.parts.v[1].j = "dict"
                             /\ ~TemCampo(cand.v.content.v.parts.v[1], "text")

\* C5 as claimed: a 2xx answer whose body lacks the expected text field
\* makes gerar_conteudo fail with the malformed-response error and no other.
C5_FormatoInesperado ==
    (Respondeu /\ Status2xx /\ FaltaTextoEsperado(upstream.corpo)) =>
        (~saida.ok /\ saida.msg = MsgFormato)

\* C5, the part the code does: a missing key is reported as malformed.
C5_ChaveAusente ==
    (Respondeu /\ Status2xx /\ upstream.corpo.j = "dict"
        /\ ~TemCampo(upstream.corpo, "candidates")) =>
        (~saida.ok /\ saida.msg = MsgFormato)

(***************************************************************************)
(* Properties of the application, checked under Spec.                      *)
(***************************************************************************)

\* The credentials start-up must refuse: absent, empty, the placeholder.
CredenciaisRecusadas == {NoneVal, "", "sua_api_key_aqui"}

\* C8: a handler has run only in a process whose GeminiService was built with
\* a credential that is neither absent, empty nor the placeholder; with such
\* a credential the import fails and nothing is ever served.
C8_ValidacaoNoInicio ==
    /\ resultado.op # "nenhum" => estado = "servindo"
    /\ estado = "servindo" => api_key \notin CredenciaisRecusadas
    /\ api_key \in CredenciaisRecusadas =>
         /\ estado \in {"inicio", "falhou"}
         /\ resultado = SemResultado
         /\ interacoes = <<>>
         /\ contador = 0
    /\ estado = "falhou" => api_key \in CredenciaisRecusadas

\* C8 witness: start-up has failed on the placeholder credential.
C8_Witness ==
    /\ estado = "falhou"
    /\ api_key = "sua_api_key_aqui"
    /\ resultado = SemResultado

\* C8, the other side: a request has been served under a real credential.
C8_ServindoComChave ==
    /\ estado = "servindo"
    /\ api_key = "AIza-chave-1"
    /\ resultado.op = "processar"

\* The characters of an input that are not blank.
NaoBrancos(u) == {k \in 1..Len(u) : u[k] # " "}

\* A processar_input step that answered with a joke / with an error.
ProcessouOk == resultado'.op = "processar" /\ resultado'.erro = ""
ProcessouErro == resultado'.op = "processar" /\ resultado'.erro # ""

\* C9: a request answered with a joke appends exactly one Interaction, the
\* one it created, at the end of the log (pushing the oldest out of a full
\* log); a request answered with an error, for a short input or a failed
\* generation, leaves the log as it was; either way the process keeps
\* serving, and a further request can still succeed and append.  Only inputs
\* with two or more non-blank characters ever reach the log.
C9_UmaInteracaoPorSucesso ==
    /\ [][ProcessouOk =>
            /\ PassoAppend
            /\ NovoAppend.id = contador + 1
            /\ \A k \in 1..Len(interacoes) : interacoes[k].ref # NovoAppend.ref
            /\ interacoes' = IF Len(interacoes) < limite
                             THEN Append(interacoes, NovoAppend)
                             ELSE Append(Tail(interacoes), NovoAppend)
            /\ resultado'.total = Len(interacoes')
            /\ estado' = "servindo"]_vars
    /\ [][ProcessouErro =>
            /\ interacoes' = interacoes
            /\ appended' = appended
            /\ contador' = contador
            /\ estado' = "servindo"]_vars
    /\ [](\A k \in 1..Len(interacoes) :
             Cardinality(NaoBrancos(interacoes[k].usuario_input)) >= 2)
    /\ []((estado = "servindo" /\ contador < LimiteApp + MaxExtra) =>
             ENABLED (ProcessarInput /\ Len(appended') = Len(appended) + 1))

\* C9 witness: after 51 jokes on the cap of 50, a request has failed with a
\* timeout and the log still holds its 50 entries.
C9_Witness ==
    /\ resultado.op = "processar"
    /\ resultado.erro = "timeout"
    /\ contador = LimiteApp + 1
    /\ Len(interacoes) = LimiteApp
    /\ interacoes[1].id = 2

\* C9, second witness state: a request succeeded after the log was emptied.
C9_SucessoAposLimpar ==
    /\ resultado.op = "processar"
    /\ resultado.erro = ""
    /\ contador = 3
    /\ Len(interacoes) = 1

\* C3 with the handlers run one at a time, as the event loop of main.py runs
\* them: the ids in the log increase strictly and the newest is _contador.
C3_Sequencial ==
    /\ \A j, k \in 1..Len(appended) : j < k => appended[j].id < appended[k].id
    /\ \A k \in 1..Len(interacoes) : interacoes[k].id =< contador
    /\ \A j, k \in 1..Len(interacoes) : j < k => interacoes[j].id < interacoes[k].id

(***************************************************************************)
(* Properties under concurrency, checked under SpecConc.                   *)
(***************************************************************************)

\* The interactions whose __init__ has assigned the id: those a thread holds
\* past `self.id = ...` and those already appended.
Criadas ==
    {obj[t] : t \in {x \in Threads : pc[x] \in {"append", "check", "pop"}}}
        \cup {appended[k] : k \in 1..Len(appended)}

C3_IdDuplicadoNoLog ==
    \E j, k \in 1..Len(interacoes) :
        /\ j # k
        /\ interacoes[j].ref # interacoes[k].ref
        /\ interacoes[j].id = interacoes[k].id

Quieto == \A t \in Threads : pc[t] = "idle"

\* C10: with append, length test and pop(0) of concurrent adicionar calls
\* interleaved, the log is at all times the tail end of the sequence of
\* appends (whatever was removed was the oldest entry at that moment, nothing
\* else is lost), no interaction occurs in it twice, and once every call has
\* returned its length is at most the cap.
C10_CorridaBenigna ==
    /\ Len(interacoes) =< Len(appended)
    /\ interacoes = UltimosDe(appended, Len(interacoes))
    /\ \A j, k \in 1..Len(interacoes) : j # k => interacoes[j].ref # interacoes[k].ref
    /\ Quieto => Len(interacoes) =< limite

\* C10 witness: two calls interleaved so that both saw the log over the cap
\* and both popped: every call has returned and the log is shorter than the
\* cap allows.
C10_Witness ==
    /\ Quieto
    /\ limite = 1
    /\ Len(appended) = 2
    /\ interacoes = <<>>

====
